---- MODULE Spec2Model ----
(***************************************************************************)
(* A model of the retrieval-and-generation core of the questionnaire       *)
(* answering tool: the per-user vector index store (embedder.py), the      *)
(* lazily built embedding model (embedder.py), and answer synthesis and    *)
(* coverage scoring (rag.py).                                              *)
(*                                                                         *)
(* Scores and confidences are kept in hundredths (0.35 is 35): embedding   *)
(* vectors are unit vectors scaled by 10, so an inner product of two of    *)
(* them is a similarity in hundredths.                                     *)
(***************************************************************************)
EXTENDS Integers, Sequences, FiniteSets, TLC

VARIABLES
    \* ---- the vector index store on disk (embedder.py) ----
    procs,        \* the sessions that run store operations in this behaviour
    users,        \* the user ids those sessions work for
    indexFile,    \* user directory -> state of its store.index
    chunksFile,   \* user directory -> state of its chunks.pkl
    pc,           \* session -> position inside its current store operation
    user,         \* session -> user_id argument of the current operation
    chunksArg,    \* session -> all_chunks (build_index) / chunks read (load_index)
    matrix,       \* session -> matrix built (build_index) / index read (load_index)
    deleted,      \* session -> local `deleted` of delete_user_index
    ret,          \* session -> outcome of its last finished operation
    hist,         \* per session: how its previous call ended and which artifacts its
                  \* user had when the current call began (kept for a session running alone)
    \* ---- the embedding model singleton (embedder.py) ----
    threads,      \* the threads calling get_model in this behaviour
    model,        \* the module global _model (0 is None)
    tpc,          \* thread -> position inside get_model
    made,         \* thread -> the instance its constructor call produced (0: none)
    got,          \* thread -> the instance get_model returned to it (0: not yet)
    constructed,  \* how many times SentenceTransformer(...) has run
    \* ---- answering a questionnaire (rag.py) ----
    apiKey,       \* GROQ_API_KEY, read from the environment at import
    kbIndex,      \* the index passed to generate_batch_answers
    kbChunks,     \* the chunk list passed with it
    questions,    \* the parsed questionnaire: [number, question] in order
    hasCallback,  \* whether a progress_callback was given
    qi,           \* how many questions the loop has processed
    answers,      \* the list of answer records built so far
    paths,        \* for each record, the return statement that produced it
    progress,     \* the values passed to progress_callback, as <<num, den>>
    asked,        \* the question texts generate_answer was invoked with, in order
    lastCall,     \* the latest generate_answer: what the network did, what it called
    bpc,          \* position of the batch: "idle", "loop", "returned", "summarised"
    summary,      \* the result of get_coverage_summary
    \* ---- chunk_text (embedder.py) ----
    ctText,       \* the argument text
    ctSource,     \* the argument source_name
    ctSize,       \* the argument chunk_size
    ctOverlap,    \* the argument overlap
    ctWords,      \* the local words
    ctI,          \* the local i
    ctIter,       \* how many times the loop body has run
    ctChunks,     \* the local chunks
    cpc,          \* position inside chunk_text: "idle", "start", "loop", "returned"
    \* ---- retrieve (embedder.py) ----
    rtArgs,       \* the arguments question, index, chunks, top_k, threshold
    rtHits,       \* what index.search returned: (score, idx) pairs
    rtResults,    \* how the call ended: the returned list or the raised error
    rpc,          \* position inside retrieve: "idle", "start", "searched", "done"
    \* ---- the Build Knowledge Base handler (app.py) ----
    upFiles,      \* ref_files: the uploaded documents
    upI,          \* how many of them the loop has been through
    upAll,        \* all_chunks
    upErrors,     \* the names of the files st.error reported
    upProgress,   \* the values given to the progress bar
    upResult,     \* how the call of build_index ended
    upBuilt,      \* st.session_state["index_built"]
    upc           \* position of the handler: "idle", "loop", "building", "done", "failed"

storeVars == <<procs, users, indexFile, chunksFile, pc, user, chunksArg, matrix, deleted, ret, hist>>
modelVars == <<threads, model, tpc, made, got, constructed>>
answerVars == <<apiKey, kbIndex, kbChunks, questions, hasCallback, qi, answers, paths,
                progress, asked, lastCall, bpc, summary>>
chunkVars == <<ctText, ctSource, ctSize, ctOverlap, ctWords, ctI, ctIter, ctChunks, cpc>>
retrVars == <<rtArgs, rtHits, rtResults, rpc>>
uploadVars == <<upFiles, upI, upAll, upErrors, upProgress, upResult, upBuilt, upc>>
notStore == <<modelVars, answerVars, chunkVars, retrVars, uploadVars>>
notModel == <<storeVars, answerVars, chunkVars, retrVars, uploadVars>>
notAnswer == <<storeVars, modelVars, chunkVars, retrVars, uploadVars>>
notChunk == <<storeVars, modelVars, answerVars, retrVars, uploadVars>>
notRetr == <<storeVars, modelVars, answerVars, chunkVars, uploadVars>>
notStoreNorUpload == <<modelVars, answerVars, chunkVars, retrVars>>

\* ------------------------------------------------------------------------
\* Bounds of the model
\* ------------------------------------------------------------------------
MaxChunks == 2
MaxThreads == 3
MaxQuestions == 2
MaxRecords == 3
MaxTextLen == 6
MaxChunkSize == 4
MaxTopK == 3
MaxFiles == 2

AllUsers == {1, 2}
AllProcs == {1, 2}

\* ------------------------------------------------------------------------
\* get_user_paths(user_id)
\* ------------------------------------------------------------------------
FAISS_BASE_PATH == "faiss_store"

\* An integer as an f-string formats it.
RECURSIVE Decimal(_)
Decimal(n) ==
    IF n < 10
    THEN <<"0", "1", "2", "3", "4", "5", "6", "7", "8", "9">>[n + 1]
    ELSE Decimal(n \div 10) \o Decimal(n % 10)

\* A variant that leaves the user id out of the directory name.
UserDirShared(user_id) == FAISS_BASE_PATH \o "/user_"

\* Line 27: the directory both paths of a user lie in.
UserDir(user_id) == FAISS_BASE_PATH \o "/user_" \o Decimal(user_id)

AllDirs == { UserDir(u) : u \in AllUsers }

\* ------------------------------------------------------------------------
\* Chunks and embeddings
\* ------------------------------------------------------------------------
ChunkPool ==
    { [text |-> "aes", source |-> "policy.pdf"],
      [text |-> "backup", source |-> "dr.txt"] }

RECURSIVE SeqsUpTo(_, _)
SeqsUpTo(S, n) ==
    IF n = 0 THEN { <<>> }
    ELSE LET shorter == SeqsUpTo(S, n - 1)
         IN  shorter \cup { Append(s, x) : s \in { t \in shorter : Len(t) = n - 1 }, x \in S }

ChunkLists == SeqsUpTo(ChunkPool, MaxChunks)

\* model.encode(text, normalize_embeddings=True): a fixed unit vector per text.
get_embedding(text) ==
    CASE text = "aes"       -> <<10, 0>>
      [] text = "backup"    -> <<0, 10>>
      [] text = "q_aes"     -> <<8, 6>>
      [] text = "q_backup"  -> <<0, 10>>
      [] OTHER              -> <<-6, -8>>

QuestionPool == {"q_aes", "q_backup", "q_none"}

\* The loop of build_index: one embedding per chunk, in input order.
BuildMatrix(all_chunks) ==
    [i \in 1..Len(all_chunks) |-> get_embedding(all_chunks[i].text)]

\* ------------------------------------------------------------------------
\* Files
\* ------------------------------------------------------------------------
Absent == [exists |-> FALSE, complete |-> FALSE, data |-> <<>>]
Truncated == [exists |-> TRUE, complete |-> FALSE, data |-> <<>>]
\* A variant of a completed write that leaves the file empty.
WrittenEmpty(d) == [exists |-> TRUE, complete |-> TRUE, data |-> <<>>]

Written(d) == [exists |-> TRUE, complete |-> TRUE, data |-> d]

\* A variant of os.remove that leaves the file where it is.
UnlinkKeeps(file) == file

\* os.remove(path) on an existing file.
Unlink(file) == Absent

\* Writing through an open handle: the data lands under the path unless the
\* path was unlinked after the open (the write then goes to the orphaned file).
WriteThrough(file, d) == IF file.exists THEN Written(d) ELSE Absent

NoRet == [op |-> "none", user |-> 0, ok |-> FALSE, value |-> FALSE, err |-> "",
          index |-> <<>>, chunks |-> <<>>]
Returned(op, u, value) ==
    [op |-> op, user |-> u, ok |-> TRUE, value |-> value, err |-> "",
     index |-> <<>>, chunks |-> <<>>]
Raised(op, u, err) ==
    [op |-> op, user |-> u, ok |-> FALSE, value |-> FALSE, err |-> err,
     index |-> <<>>, chunks |-> <<>>]
ReturnedPair(op, u, index, chunks) ==
    [op |-> op, user |-> u, ok |-> TRUE, value |-> TRUE, err |-> "",
     index |-> index, chunks |-> chunks]

\* Ends session p's operation with outcome r and clears its locals.
Finish(p, r) ==
    /\ pc' = [pc EXCEPT ![p] = "idle"]
    /\ ret' = [ret EXCEPT ![p] = r]
    /\ chunksArg' = [chunksArg EXCEPT ![p] = <<>>]
    /\ matrix' = [matrix EXCEPT ![p] = <<>>]
    /\ deleted' = [deleted EXCEPT ![p] = FALSE]

Goto(p, label) == pc' = [pc EXCEPT ![p] = label]

NoHistory == [prev |-> NoRet, hadIndex |-> FALSE, hadChunks |-> FALSE]

\* At a call by session p for user u: note how p's previous call ended and
\* which of u's artifacts are on disk now.
Remember(p, u) ==
    hist' = IF procs = {p}
            THEN [hist EXCEPT ![p] = [prev |-> ret[p],
                                      hadIndex |-> indexFile[UserDir(u)].exists,
                                      hadChunks |-> chunksFile[UserDir(u)].exists]]
            ELSE hist

\* No session has called anything yet.
SessionsInit(P, U) ==
    /\ procs = P
    /\ users = U
    /\ pc = [p \in AllProcs |-> "idle"]
    /\ user = [p \in AllProcs |-> 0]
    /\ chunksArg = [p \in AllProcs |-> <<>>]
    /\ matrix = [p \in AllProcs |-> <<>>]
    /\ deleted = [p \in AllProcs |-> FALSE]
    /\ ret = [p \in AllProcs |-> NoRet]
    /\ hist = [p \in AllProcs |-> NoHistory]

StoreInit(P, U) ==
    /\ indexFile = [dir \in AllDirs |-> Absent]
    /\ chunksFile = [dir \in AllDirs |-> Absent]
    /\ SessionsInit(P, U)

\* What earlier operations may have left in a user's directory: nothing, a
\* knowledge base of one chunk, or the index file a failed build had opened.
StoresLeft ==
    { [index |-> Absent, chunks |-> Absent], [index |-> Truncated, chunks |-> Absent] }
        \cup { [index |-> Written(BuildMatrix(<<c>>)), chunks |-> Written(<<c>>)] : c \in ChunkPool }

\* The sessions work for the users U; every other user's directory holds
\* what earlier operations left there.
StoreInitBeside(P, U) ==
    /\ \E left \in StoresLeft :
        /\ indexFile = [dir \in AllDirs |->
               IF \E b \in AllUsers \ U : dir = UserDir(b) THEN left.index ELSE Absent]
        /\ chunksFile = [dir \in AllDirs |->
               IF \E b \in AllUsers \ U : dir = UserDir(b) THEN left.chunks ELSE Absent]
    /\ SessionsInit(P, U)

\* ------------------------------------------------------------------------
\* build_index(all_chunks, user_id)
\* ------------------------------------------------------------------------
BuildCall(p) ==
    /\ p \in procs
    /\ pc[p] = "idle"
    /\ \E u \in users, cs \in ChunkLists :
        /\ user' = [user EXCEPT ![p] = u]
        /\ chunksArg' = [chunksArg EXCEPT ![p] = cs]
        /\ Remember(p, u)
    /\ Goto(p, "b_embed")
    /\ ret' = [ret EXCEPT ![p] = NoRet]
    /\ UNCHANGED <<procs, users, indexFile, chunksFile, matrix, deleted>>
    /\ UNCHANGED notStore

\* Lines 75-81: embed every chunk, stack the vectors; np.stack of an empty
\* list raises ValueError.
BuildEmbed(p) ==
    /\ pc[p] = "b_embed"
    /\ IF chunksArg[p] = <<>>
       THEN /\ Finish(p, Raised("build", user[p], "ValueError"))
       ELSE /\ matrix' = [matrix EXCEPT ![p] = BuildMatrix(chunksArg[p])]
            /\ Goto(p, "b_open_index")
            /\ UNCHANGED <<chunksArg, deleted, ret>>
    /\ UNCHANGED <<hist, procs, users, indexFile, chunksFile, user>>
    /\ UNCHANGED notStore

\* faiss.write_index opens store.index for writing, which truncates it ...
BuildOpenIndex(p) ==
    /\ pc[p] = "b_open_index"
    /\ indexFile' = [indexFile EXCEPT ![UserDir(user[p])] = Truncated]
    /\ Goto(p, "b_write_index")
    /\ UNCHANGED <<hist, procs, users, chunksFile, user, chunksArg, matrix, deleted, ret>>
    /\ UNCHANGED notStore

\* ... and then writes the whole index.
BuildWriteIndex(p) ==
    /\ pc[p] = "b_write_index"
    /\ indexFile' = [indexFile EXCEPT ![UserDir(user[p])] = WriteThrough(@, matrix[p])]
    /\ Goto(p, "b_open_chunks")
    /\ UNCHANGED <<hist, procs, users, chunksFile, user, chunksArg, matrix, deleted, ret>>
    /\ UNCHANGED notStore

\* open(chunks_path, "wb") truncates chunks.pkl ...
BuildOpenChunks(p) ==
    /\ pc[p] = "b_open_chunks"
    /\ chunksFile' = [chunksFile EXCEPT ![UserDir(user[p])] = Truncated]
    /\ Goto(p, "b_write_chunks")
    /\ UNCHANGED <<hist, procs, users, indexFile, user, chunksArg, matrix, deleted, ret>>
    /\ UNCHANGED notStore

\* ... and pickle.dump writes the chunk list; build_index returns the pair.
BuildWriteChunks(p) ==
    /\ pc[p] = "b_write_chunks"
    /\ chunksFile' = [chunksFile EXCEPT ![UserDir(user[p])] = WriteThrough(@, chunksArg[p])]
    /\ Finish(p, ReturnedPair("build", user[p], matrix[p], chunksArg[p]))
    /\ UNCHANGED <<hist, procs, users, indexFile, user>>
    /\ UNCHANGED notStore

\* Any step of build_index may raise (the embedding, either open, either
\* write); nothing in build_index catches it or undoes what was written.
BuildFail(p) ==
    /\ pc[p] \in {"b_embed", "b_open_index", "b_write_index", "b_open_chunks", "b_write_chunks"}
    /\ Finish(p, Raised("build", user[p], pc[p]))
    /\ UNCHANGED <<hist, procs, users, indexFile, chunksFile, user>>
    /\ UNCHANGED notStore

\* ------------------------------------------------------------------------
\* load_index(user_id)
\* ------------------------------------------------------------------------
LoadCall(p) ==
    /\ p \in procs
    /\ pc[p] = "idle"
    /\ \E u \in users : user' = [user EXCEPT ![p] = u] /\ Remember(p, u)
    /\ Goto(p, "l_check_index")
    /\ ret' = [ret EXCEPT ![p] = NoRet]
    /\ UNCHANGED <<procs, users, indexFile, chunksFile, chunksArg, matrix, deleted>>
    /\ UNCHANGED notStore

\* Line 96, left operand: not os.path.exists(index_path).
LoadCheckIndex(p) ==
    /\ pc[p] = "l_check_index"
    /\ IF indexFile[UserDir(user[p])].exists
       THEN Goto(p, "l_check_chunks") /\ UNCHANGED <<chunksArg, matrix, deleted, ret>>
       ELSE Finish(p, Raised("load", user[p], "FileNotFoundError"))
    /\ UNCHANGED <<hist, procs, users, indexFile, chunksFile, user>>
    /\ UNCHANGED notStore

\* Line 96, right operand: not os.path.exists(chunks_path).
LoadCheckChunks(p) ==
    /\ pc[p] = "l_check_chunks"
    /\ IF chunksFile[UserDir(user[p])].exists
       THEN Goto(p, "l_read_index") /\ UNCHANGED <<chunksArg, matrix, deleted, ret>>
       ELSE Finish(p, Raised("load", user[p], "FileNotFoundError"))
    /\ UNCHANGED <<hist, procs, users, indexFile, chunksFile, user>>
    /\ UNCHANGED notStore

\* Line 99: faiss.read_index raises on a missing or incomplete file.
LoadReadIndex(p) ==
    /\ pc[p] = "l_read_index"
    /\ IF indexFile[UserDir(user[p])].complete
       THEN /\ matrix' = [matrix EXCEPT ![p] = indexFile[UserDir(user[p])].data]
            /\ Goto(p, "l_read_chunks")
            /\ UNCHANGED <<chunksArg, deleted, ret>>
       ELSE Finish(p, Raised("load", user[p], "RuntimeError"))
    /\ UNCHANGED <<hist, procs, users, indexFile, chunksFile, user>>
    /\ UNCHANGED notStore

\* Lines 100-103: pickle.load raises on a missing or incomplete file;
\* otherwise load_index returns what it read.
LoadReadChunks(p) ==
    /\ pc[p] = "l_read_chunks"
    /\ IF chunksFile[UserDir(user[p])].complete
       THEN Finish(p, ReturnedPair("load", user[p], matrix[p], chunksFile[UserDir(user[p])].data))
       ELSE Finish(p, Raised("load", user[p],
                IF chunksFile[UserDir(user[p])].exists THEN "EOFError" ELSE "FileNotFoundError"))
    /\ UNCHANGED <<hist, procs, users, indexFile, chunksFile, user>>
    /\ UNCHANGED notStore

\* ------------------------------------------------------------------------
\* index_exists(user_id)
\* ------------------------------------------------------------------------
ExistsCall(p) ==
    /\ p \in procs
    /\ pc[p] = "idle"
    /\ \E u \in users : user' = [user EXCEPT ![p] = u] /\ Remember(p, u)
    /\ Goto(p, "e_check_index")
    /\ ret' = [ret EXCEPT ![p] = NoRet]
    /\ UNCHANGED <<procs, users, indexFile, chunksFile, chunksArg, matrix, deleted>>
    /\ UNCHANGED notStore

\* Line 111, left operand of `and`.
ExistsCheckIndex(p) ==
    /\ pc[p] = "e_check_index"
    /\ IF indexFile[UserDir(user[p])].exists
       THEN Goto(p, "e_check_chunks") /\ UNCHANGED <<chunksArg, matrix, deleted, ret>>
       ELSE Finish(p, Returned("exists", user[p], FALSE))
    /\ UNCHANGED <<hist, procs, users, indexFile, chunksFile, user>>
    /\ UNCHANGED notStore

\* Line 111, right operand of `and`; the result carries the pair that was on
\* disk at the moment index_exists answered.
ExistsCheckChunks(p) ==
    /\ pc[p] = "e_check_chunks"
    /\ Finish(p, [Returned("exists", user[p], chunksFile[UserDir(user[p])].exists)
                    EXCEPT !.index = indexFile[UserDir(user[p])], !.chunks = chunksFile[UserDir(user[p])]])
    /\ UNCHANGED <<hist, procs, users, indexFile, chunksFile, user>>
    /\ UNCHANGED notStore

\* ------------------------------------------------------------------------
\* delete_user_index(user_id)
\* ------------------------------------------------------------------------
DeleteCall(p) ==
    /\ p \in procs
    /\ pc[p] = "idle"
    /\ \E u \in users : user' = [user EXCEPT ![p] = u] /\ Remember(p, u)
    /\ Goto(p, "d_check_index")
    /\ ret' = [ret EXCEPT ![p] = NoRet]
    /\ UNCHANGED <<procs, users, indexFile, chunksFile, chunksArg, matrix, deleted>>
    /\ UNCHANGED notStore

\* Line 142.
DeleteCheckIndex(p) ==
    /\ pc[p] = "d_check_index"
    /\ Goto(p, IF indexFile[UserDir(user[p])].exists THEN "d_remove_index" ELSE "d_check_chunks")
    /\ UNCHANGED <<hist, procs, users, indexFile, chunksFile, user, chunksArg, matrix, deleted, ret>>
    /\ UNCHANGED notStore

\* Lines 143-144: os.remove raises if the file has gone in the meantime.
DeleteRemoveIndex(p) ==
    /\ pc[p] = "d_remove_index"
    /\ IF indexFile[UserDir(user[p])].exists
       THEN /\ indexFile' = [indexFile EXCEPT ![UserDir(user[p])] = Unlink(@)]
            /\ deleted' = [deleted EXCEPT ![p] = TRUE]
            /\ Goto(p, "d_check_chunks")
            /\ UNCHANGED <<chunksArg, matrix, ret>>
       ELSE /\ Finish(p, Raised("delete", user[p], "FileNotFoundError"))
            /\ UNCHANGED indexFile
    /\ UNCHANGED <<hist, procs, users, chunksFile, user>>
    /\ UNCHANGED notStore

\* Line 145.
DeleteCheckChunks(p) ==
    /\ pc[p] = "d_check_chunks"
    /\ IF chunksFile[UserDir(user[p])].exists
       THEN Goto(p, "d_remove_chunks") /\ UNCHANGED <<chunksArg, matrix, deleted, ret>>
       ELSE Finish(p, Returned("delete", user[p], deleted[p]))
    /\ UNCHANGED <<hist, procs, users, indexFile, chunksFile, user>>
    /\ UNCHANGED notStore

\* Lines 146-149.
DeleteRemoveChunks(p) ==
    /\ pc[p] = "d_remove_chunks"
    /\ IF chunksFile[UserDir(user[p])].exists
       THEN /\ chunksFile' = [chunksFile EXCEPT ![UserDir(user[p])] = Unlink(@)]
            /\ Finish(p, Returned("delete", user[p], TRUE))
       ELSE /\ Finish(p, Raised("delete", user[p], "FileNotFoundError"))
            /\ UNCHANGED chunksFile
    /\ UNCHANGED <<hist, procs, users, indexFile, user>>
    /\ UNCHANGED notStore

\* ------------------------------------------------------------------------
\* get_model(): the lazily built module global _model
\* ------------------------------------------------------------------------
AllThreads == 1..MaxThreads

ModelInit(T) ==
    /\ threads = T
    /\ model = 0
    /\ tpc = [t \in AllThreads |-> "start"]
    /\ made = [t \in AllThreads |-> 0]
    /\ got = [t \in AllThreads |-> 0]
    /\ constructed = 0

\* Line 12: if _model is None.
GetModelTest(t) ==
    /\ t \in threads
    /\ tpc[t] = "start"
    /\ tpc' = [tpc EXCEPT ![t] = IF model = 0 THEN "construct" ELSE "return"]
    /\ UNCHANGED <<threads, model, made, got, constructed>>
    /\ UNCHANGED notModel

\* Lines 13-15, right-hand side: SentenceTransformer('all-MiniLM-L6-v2')
\* builds a new instance (it loads the weights, so other threads run meanwhile).
GetModelConstruct(t) ==
    /\ tpc[t] = "construct"
    /\ constructed' = constructed + 1
    /\ made' = [made EXCEPT ![t] = constructed + 1]
    /\ tpc' = [tpc EXCEPT ![t] = "assign"]
    /\ UNCHANGED <<threads, model, got>>
    /\ UNCHANGED notModel

\* Line 15, the store to the global.
GetModelAssign(t) ==
    /\ tpc[t] = "assign"
    /\ model' = made[t]
    /\ tpc' = [tpc EXCEPT ![t] = "return"]
    /\ UNCHANGED <<threads, made, got, constructed>>
    /\ UNCHANGED notModel

\* Line 16: return _model.
GetModelReturn(t) ==
    /\ tpc[t] = "return"
    /\ got' = [got EXCEPT ![t] = model]
    /\ tpc' = [tpc EXCEPT ![t] = "done"]
    /\ UNCHANGED <<threads, model, made, constructed>>
    /\ UNCHANGED notModel

\* ------------------------------------------------------------------------
\* retrieve(question, index, chunks, top_k=3, threshold=0.35)
\* ------------------------------------------------------------------------
DefaultTopK == 3
DefaultThreshold == 35

Dot(u, v) == u[1] * v[1] + u[2] * v[2]

\* The score the search backend reports beside position -1 when the index
\* holds fewer than top_k vectors: the lowest float (-3.4e38).
NoHitScore == 0 - 1000000

\* index.search(emb, k): the k best inner products in descending order, each
\* with its 0-based row; missing hits are padded with row -1.
RECURSIVE TopK(_, _, _)
TopK(scores, taken, k) ==
    IF k = 0 THEN <<>>
    ELSE LET left == (1..Len(scores)) \ taken
         IN  IF left = {}
             THEN <<[score |-> NoHitScore, idx |-> -1]>> \o TopK(scores, taken, k - 1)
             ELSE LET best == CHOOSE i \in left : \A j \in left :
                                  \/ scores[i] > scores[j]
                                  \/ scores[i] = scores[j] /\ i <= j
                  IN  <<[score |-> scores[best], idx |-> best - 1]>>
                          \o TopK(scores, taken \cup {best}, k - 1)

IndexSearch(index, emb, k) ==
    TopK([i \in 1..Len(index) |-> Dot(index[i], emb)], {}, k)

\* chunks[idx] as Python indexes a list: a negative idx counts from the end.
PyItem(chunks, idx) == IF idx >= 0 THEN chunks[idx + 1] ELSE chunks[Len(chunks) + idx + 1]

\* A variant that keeps a hit whatever its score.
KeepsWhateverTheScore(h, chunks, threshold) == h.idx < Len(chunks)

\* Line 128: the test a hit must pass.
Keeps(h, chunks, threshold) == h.score >= threshold /\ h.idx < Len(chunks)

\* Lines 129-131 raise IndexError when a kept hit's position is below
\* -len(chunks).
Unindexable(h, chunks) == h.idx < 0 - Len(chunks)

RECURSIVE KeepHits(_, _, _)
KeepHits(hits, chunks, threshold) ==
    IF hits = <<>> THEN <<>>
    ELSE LET h == Head(hits)
             rest == KeepHits(Tail(hits), chunks, threshold)
         IN  IF Keeps(h, chunks, threshold)
             THEN <<[text |-> PyItem(chunks, h.idx).text,
                     source |-> PyItem(chunks, h.idx).source,
                     score |-> h.score]>> \o rest
             ELSE rest

retrieve(question, index, chunks, top_k, threshold) ==
    KeepHits(IndexSearch(index, get_embedding(question), top_k), chunks, threshold)

\* The state machine of one call of retrieve.
NoResults == [raised |-> FALSE, err |-> "", value |-> <<>>]

RetrieveIdle ==
    /\ rtArgs = [question |-> "", index |-> <<>>, chunks |-> <<>>, top_k |-> 0, threshold |-> 0]
    /\ rtHits = <<>>
    /\ rtResults = NoResults
    /\ rpc = "idle"

\* The thresholds a caller may pass: the default, values around the scores,
\* and one no score is below.
Thresholds == {NoHitScore, 0, DefaultThreshold, 81}

\* A call of retrieve with any question, any index and chunk list (also ones
\* that were not built together) and top_k >= 1 (the search rejects k = 0).
RetrieveInit ==
    /\ rtArgs \in [question : QuestionPool,
                   index : { BuildMatrix(cs) : cs \in ChunkLists },
                   chunks : ChunkLists,
                   top_k : 1..MaxTopK,
                   threshold : Thresholds]
    /\ rtHits = <<>>
    /\ rtResults = NoResults
    /\ rpc = "start"

\* Lines 123-125.
RetrieveSearch ==
    /\ rpc = "start"
    /\ rtHits' = IndexSearch(rtArgs.index, get_embedding(rtArgs.question), rtArgs.top_k)
    /\ rpc' = "searched"
    /\ UNCHANGED <<rtArgs, rtResults>>
    /\ UNCHANGED notRetr

\* Lines 127-132: the loop over the hits up to the return, or up to the
\* IndexError of chunks[idx].
RetrieveFilter ==
    /\ rpc = "searched"
    /\ rtResults' =
          IF \E n \in 1..Len(rtHits) :
                 Keeps(rtHits[n], rtArgs.chunks, rtArgs.threshold) /\ Unindexable(rtHits[n], rtArgs.chunks)
          THEN [raised |-> TRUE, err |-> "IndexError", value |-> <<>>]
          ELSE [raised |-> FALSE, err |-> "",
                value |-> KeepHits(rtHits, rtArgs.chunks, rtArgs.threshold)]
    /\ rpc' = "done"
    /\ UNCHANGED <<rtArgs, rtHits>>
    /\ UNCHANGED notRetr

\* ------------------------------------------------------------------------
\* The generation backends (rag.py)
\* ------------------------------------------------------------------------
NO_CONTEXT_RESPONSE == "Not found in references."
NO_LLM_RESPONSE == "No LLM available. Please configure GROQ_API_KEY or start Ollama."
SnippetLen == 300

Whitespace == {" ", "\n", "\t"}

RECURSIVE LStrip(_)
LStrip(s) ==
    IF Len(s) > 0 /\ SubSeq(s, 1, 1) \in Whitespace THEN LStrip(SubSeq(s, 2, Len(s))) ELSE s

RECURSIVE RStrip(_)
RStrip(s) ==
    IF Len(s) > 0 /\ SubSeq(s, Len(s), Len(s)) \in Whitespace
    THEN RStrip(SubSeq(s, 1, Len(s) - 1)) ELSE s

\* str.strip()
Strip(s) == RStrip(LStrip(s))

\* What requests.get(.../api/tags, timeout=5) can do.
ProbeResults ==
    { [raised |-> FALSE, status |-> 200],
      [raised |-> FALSE, status |-> 503],
      [raised |-> TRUE, status |-> 0] }

\* What requests.post(..., timeout=120) can do: answer, or raise.
Responses ==
    { [raised |-> FALSE, status |-> 200, text |-> "AES-256 at rest."],
      [raised |-> FALSE, status |-> 200, text |-> " Not found in references.\n"],
      [raised |-> FALSE, status |-> 429, text |-> "busy"],
      [raised |-> TRUE, status |-> 0, text |-> "Read timed out."] }

ApiKeys == {"", "gsk_key"}

check_ollama_available(probe) == IF probe.raised THEN FALSE ELSE probe.status = 200

check_groq_available(GROQ_API_KEY) == GROQ_API_KEY # ""

Value(text) == [raised |-> FALSE, type |-> "", text |-> text]
\* raise Exception(text) in the code; a requests exception out of requests.post
Exception(text) == [raised |-> TRUE, type |-> "Exception", text |-> text]
RequestException(text) == [raised |-> TRUE, type |-> "RequestException", text |-> text]

generate_with_ollama(response) ==
    IF response.raised THEN RequestException(response.text)
    ELSE IF response.status = 200 THEN Value(Strip(response.text))
    ELSE Exception("Ollama error: " \o response.text)

generate_with_groq(GROQ_API_KEY, response) ==
    IF GROQ_API_KEY = "" THEN Exception("GROQ_API_KEY not set in environment")
    ELSE IF response.raised THEN RequestException(response.text)
    ELSE IF response.status = 200 THEN Value(Strip(response.text))
    ELSE Exception("Groq error: " \o response.text)

\* ------------------------------------------------------------------------
\* generate_answer(question, index, chunks)
\* ------------------------------------------------------------------------
RECURSIVE SumScores(_)
SumScores(rs) == IF rs = <<>> THEN 0 ELSE Head(rs).score + SumScores(Tail(rs))

\* list(dict.fromkeys(...)): first occurrences, in order.
RECURSIVE Dedup(_, _)
Dedup(xs, seen) ==
    IF xs = <<>> THEN <<>>
    ELSE IF Head(xs) \in seen THEN Dedup(Tail(xs), seen)
    ELSE <<Head(xs)>> \o Dedup(Tail(xs), seen \cup {Head(xs)})

RECURSIVE Join(_, _)
Join(sep, xs) ==
    IF xs = <<>> THEN ""
    ELSE IF Len(xs) = 1 THEN xs[1]
    ELSE xs[1] \o sep \o Join(sep, Tail(xs))

\* round(num / den, 2) in hundredths: the nearest whole number of hundredths;
\* on an exact half the float's last bit decides, so either neighbour.
Round2(num, den) ==
    LET q == num \div den
        r == num % den
    IN  IF 2 * r < den THEN {q}
        ELSE IF 2 * r > den THEN {q + 1}
        ELSE {q, q + 1}

Sentinel(text) == [answer |-> text, citation |-> "N/A", confidence |-> 0, snippet |-> ""]

\* A variant in which the availability check never returns early.
NoProviderCheckDropped(use_groq, use_ollama) == FALSE

\* Line 106: if not use_groq and not use_ollama.
NoProvider(use_groq, use_ollama) == ~use_groq /\ ~use_ollama

\* A variant that prefers the local backend.
SelectProviderLocalFirst(use_groq, use_ollama) == IF use_ollama THEN "ollama" ELSE "groq"

\* Lines 143-146: if use_groq ... else ...
SelectProvider(use_groq, use_ollama) == IF use_groq THEN "groq" ELSE "ollama"

\* A variant that turns to the local backend when the cloud backend fails.
GenerateCallsWithFallback(provider, use_ollama, reply) ==
    IF provider = "groq"
    THEN <<"generate_with_groq">> \o (IF reply.raised /\ use_ollama
                                      THEN <<"generate_with_ollama">> ELSE <<>>)
    ELSE <<"generate_with_ollama">>

\* Lines 142-146: the one generate call of the try block, to the chosen backend.
GenerateCalls(provider, use_ollama, reply) ==
    IF provider = "groq" THEN <<"generate_with_groq">> ELSE <<"generate_with_ollama">>

\* A variant whose handler catches only the exceptions of the requests library.
CaughtRequestErrorsOnly(exc) == exc.type = "RequestException"

\* Line 147: except Exception catches whatever the generate call raised.
Caught(exc) == exc.type \in {"Exception", "RequestException"}

\* A variant whose sentinel record carries an empty citation.
NotFoundRecordNoCitation == [Sentinel(NO_CONTEXT_RESPONSE) EXCEPT !.citation = ""]

\* Lines 119-124.
NotFoundRecord == Sentinel(NO_CONTEXT_RESPONSE)

\* One outcome of a call: whether it raised, the record returned, the external
\* calls made in order, and the return statement taken.
Outcome(raised, record, calls, path) ==
    [raised |-> raised, record |-> record, calls |-> calls, path |-> path]

\* The outcomes of one call. `probe` and `response` are what the network does
\* during the call, `embedding_ok` whether get_embedding works (it raises when
\* the embedding model cannot be loaded).
generate_answer(question, index, chunks, GROQ_API_KEY, probe, embedding_ok, response) ==
    LET use_groq == check_groq_available(GROQ_API_KEY)
        use_ollama == check_ollama_available(probe)
        probes == <<"check_groq_available", "check_ollama_available">>
        retrieved == retrieve(question, index, chunks, DefaultTopK, DefaultThreshold)
        searched == probes \o <<"get_embedding", "index.search">>
        provider == SelectProvider(use_groq, use_ollama)
        reply == IF provider = "groq" THEN generate_with_groq(GROQ_API_KEY, response)
                 ELSE generate_with_ollama(response)
        called == searched \o GenerateCalls(provider, use_ollama, reply)
        all_sources == Dedup([k \in 1..Len(retrieved) |-> retrieved[k].source], {})
        top == retrieved[1].text
    IN  IF NoProvider(use_groq, use_ollama)
        THEN { Outcome(FALSE, Sentinel(NO_LLM_RESPONSE), probes, "unavailable") }
        ELSE IF ~embedding_ok
        THEN { Outcome(TRUE, Sentinel(""), probes \o <<"get_embedding">>, "raised") }
        ELSE IF retrieved = <<>>
        THEN { Outcome(FALSE, NotFoundRecord, searched, "not_found") }
        ELSE IF reply.raised /\ Caught(reply)
        THEN { Outcome(FALSE, Sentinel("Error generating answer: " \o reply.text),
                       called, "error") }
        ELSE IF reply.raised
        THEN { Outcome(TRUE, Sentinel(""), called, "raised") }
        ELSE { Outcome(FALSE,
                       [answer |-> reply.text,
                        citation |-> Join(", ", all_sources),
                        confidence |-> c,
                        snippet |-> IF top # ""
                                    THEN SubSeq(top, 1, IF Len(top) < SnippetLen
                                                        THEN Len(top) ELSE SnippetLen) \o "..."
                                    ELSE ""],
                       called, "generated")
               : c \in Round2(SumScores(retrieved), Len(retrieved)) }

\* ------------------------------------------------------------------------
\* get_coverage_summary(answers)
\* ------------------------------------------------------------------------
RECURSIVE SumConfidence(_)
SumConfidence(rs) == IF rs = <<>> THEN 0 ELSE Head(rs).confidence + SumConfidence(Tail(rs))

\* A variant that classifies by confidence instead of by answer text.
IsFoundByConfidence(a) == a.confidence > 0

IsFound(a) == a.answer # NO_CONTEXT_RESPONSE

\* The possible results (the rounding of the mean on an exact half is left open).
get_coverage_summary(as) ==
    LET total == Len(as)
        answered_confidences == SelectSeq(as, IsFound)
        found == Len(answered_confidences)
        not_found == total - found
    IN  { [total_questions |-> total, answered |-> found, not_found |-> not_found,
           avg_confidence |-> avg]
          : avg \in IF answered_confidences # <<>>
                    THEN Round2(SumConfidence(answered_confidences), Len(answered_confidences))
                    ELSE {0} }

\* ------------------------------------------------------------------------
\* generate_batch_answers(questions, index, chunks, progress_callback)
\* ------------------------------------------------------------------------
NoCall == [probe |-> [raised |-> TRUE, status |-> 0],
           response |-> [raised |-> TRUE, status |-> 0, text |-> ""],
           calls |-> <<>>]

\* Whether a call log holds a request to a generation backend.
Generated(calls) ==
    \E k \in 1..Len(calls) : calls[k] \in {"generate_with_groq", "generate_with_ollama"}

\* A variant that reports the fraction done before the question, not after.
ProgressValueBefore(k, total) == <<k, total>>

\* Line 191: the value handed to progress_callback, numerator and denominator.
ProgressValue(k, total) == <<k + 1, total>>

NoSummary == [total_questions |-> -1, answered |-> -1, not_found |-> -1, avg_confidence |-> -1]

FirstNumber == 7

\* A questionnaire: question texts in order, numbered from `first`.
Questionnaire(texts, first) ==
    [k \in 1..Len(texts) |-> [number |-> first + k - 1, question |-> texts[k]]]

AnswerIdle ==
    /\ apiKey = ""
    /\ kbIndex = <<>>
    /\ kbChunks = <<>>
    /\ questions = <<>>
    /\ hasCallback = FALSE
    /\ qi = 0
    /\ answers = <<>>
    /\ paths = <<>>
    /\ progress = <<>>
    /\ asked = <<>>
    /\ lastCall = NoCall
    /\ bpc = "idle"
    /\ summary = NoSummary

\* A batch starts from the pair load_index returned: here the index and the
\* chunk list of one build. Question numbers start at FirstNumber.
BatchInit ==
    /\ apiKey \in ApiKeys
    /\ \E built \in ChunkLists \ {<<>>} :
        /\ kbIndex = BuildMatrix(built)
        /\ kbChunks = built
    /\ \E texts \in SeqsUpTo(QuestionPool, MaxQuestions) :
        questions = Questionnaire(texts, FirstNumber)
    /\ hasCallback \in BOOLEAN
    /\ qi = 0
    /\ answers = <<>>
    /\ paths = <<>>
    /\ progress = <<>>
    /\ asked = <<>>
    /\ lastCall = NoCall
    /\ bpc = "loop"
    /\ summary = NoSummary

\* One iteration of the loop, lines 178-191. An exception out of
\* generate_answer leaves the loop and the function.
BatchAnswerOne ==
    /\ bpc = "loop"
    /\ qi < Len(questions)
    /\ LET q == questions[qi + 1]
           total == Len(questions)
       IN  \E probe \in ProbeResults, embedding_ok \in BOOLEAN, response \in Responses :
           \E result \in generate_answer(q.question, kbIndex, kbChunks, apiKey,
                                         probe, embedding_ok, response) :
               /\ asked' = Append(asked, q.question)
               /\ lastCall' = [probe |-> probe,
                               response |-> IF Generated(result.calls)
                                            THEN response ELSE NoCall.response,
                               calls |-> result.calls]
               /\ IF result.raised
                  THEN /\ bpc' = "raised"
                       /\ UNCHANGED <<answers, paths, progress, qi>>
                  ELSE /\ answers' = Append(answers,
                                        [number |-> q.number, question |-> q.question,
                                         answer |-> result.record.answer,
                                         citation |-> result.record.citation,
                                         confidence |-> result.record.confidence,
                                         snippet |-> result.record.snippet])
                       /\ paths' = Append(paths, result.path)
                       /\ progress' = IF hasCallback
                                      THEN Append(progress, ProgressValue(qi, total))
                                      ELSE progress
                       /\ qi' = qi + 1
                       /\ UNCHANGED bpc
    /\ UNCHANGED <<apiKey, kbIndex, kbChunks, questions, hasCallback, summary>>
    /\ UNCHANGED notAnswer

\* Line 193: return answers.
BatchReturn ==
    /\ bpc = "loop"
    /\ qi = Len(questions)
    /\ bpc' = "returned"
    /\ UNCHANGED <<apiKey, kbIndex, kbChunks, questions, hasCallback, qi, answers, paths,
                   progress, asked, lastCall, summary>>
    /\ UNCHANGED notAnswer

\* app.py line 211: the summary of the batch just answered.
Summarise ==
    /\ bpc = "returned"
    /\ summary' \in get_coverage_summary(answers)
    /\ bpc' = "summarised"
    /\ UNCHANGED <<apiKey, kbIndex, kbChunks, questions, hasCallback, qi, answers, paths,
                   progress, asked, lastCall>>
    /\ UNCHANGED notAnswer

\* Answer records as get_coverage_summary may be handed them (they can be
\* edited after the batch).
RecordPool ==
    { [number |-> 1, question |-> "q_aes", answer |-> a.answer, citation |-> a.citation,
       confidence |-> a.confidence, snippet |-> ""]
      : a \in { [answer |-> NO_CONTEXT_RESPONSE, citation |-> "N/A", confidence |-> 0],
                [answer |-> NO_CONTEXT_RESPONSE, citation |-> "policy.pdf", confidence |-> 80],
                [answer |-> "AES-256 at rest.", citation |-> "policy.pdf", confidence |-> 80],
                [answer |-> "AES-256 at rest.", citation |-> "policy.pdf", confidence |-> 35],
                [answer |-> NO_LLM_RESPONSE, citation |-> "N/A", confidence |-> 0] } }

RecordsInit ==
    /\ apiKey = ""
    /\ kbIndex = <<>>
    /\ kbChunks = <<>>
    /\ questions = <<>>
    /\ hasCallback = FALSE
    /\ qi = 0
    /\ answers \in SeqsUpTo(RecordPool, MaxRecords)
    /\ paths = <<>>
    /\ progress = <<>>
    /\ asked = <<>>
    /\ lastCall = NoCall
    /\ bpc = "returned"
    /\ summary = NoSummary

\* ------------------------------------------------------------------------
\* chunk_text(text, source_name, chunk_size=600, overlap=100)
\* ------------------------------------------------------------------------
DefaultChunkSize == 600
DefaultOverlap == 100

Alphabet == {"a", "b", " "}

\* The strings over Alphabet of at most n characters.
RECURSIVE StringsUpTo(_)
StringsUpTo(n) ==
    IF n = 0 THEN { "" }
    ELSE LET shorter == StringsUpTo(n - 1)
         IN  shorter \cup { t \o c : t \in { x \in shorter : Len(x) = n - 1 }, c \in Alphabet }

\* str.split(): the maximal runs of non-whitespace characters, in order.
RECURSIVE SplitFrom(_, _, _)
SplitFrom(s, k, word) ==
    IF k > Len(s) THEN (IF word = "" THEN <<>> ELSE <<word>>)
    ELSE LET c == SubSeq(s, k, k)
         IN  IF c \in Whitespace
             THEN (IF word = "" THEN <<>> ELSE <<word>>) \o SplitFrom(s, k + 1, "")
             ELSE SplitFrom(s, k + 1, word \o c)

Split(s) == SplitFrom(s, 1, "")

\* One bound of a Python slice of a list of n items, as a 0-based position.
SliceBound(b, n) ==
    IF b < 0 THEN (IF n + b < 0 THEN 0 ELSE n + b)
    ELSE IF b > n THEN n ELSE b

\* xs[lo:hi] as Python slices a list.
PySlice(xs, lo, hi) ==
    SubSeq(xs, SliceBound(lo, Len(xs)) + 1, SliceBound(hi, Len(xs)))

\* A variant whose window is one word short.
WindowShort(words, at, chunk_size) == PySlice(words, at, at + chunk_size - 1)

\* Line 42: words[i:i+chunk_size].
Window(words, at, chunk_size) == PySlice(words, at, at + chunk_size)

\* A variant that advances by a whole window, ignoring the overlap.
ChunkStepNoOverlap(chunk_size, overlap) == chunk_size

\* Line 48: the amount i advances by.
ChunkStep(chunk_size, overlap) == chunk_size - overlap

ChunkIdle ==
    /\ ctText = ""
    /\ ctSource = ""
    /\ ctSize = 0
    /\ ctOverlap = 0
    /\ ctWords = <<>>
    /\ ctI = 0
    /\ ctIter = 0
    /\ ctChunks = <<>>
    /\ cpc = "idle"

\* A call of chunk_text with any text, window and overlap, also an overlap
\* that is not smaller than the window.
ChunkInit ==
    /\ ctText \in StringsUpTo(MaxTextLen)
    /\ ctSource = "policy.pdf"
    /\ ctSize \in 1..MaxChunkSize
    /\ ctOverlap \in 0..MaxChunkSize
    /\ ctWords = <<>>
    /\ ctI = 0
    /\ ctIter = 0
    /\ ctChunks = <<>>
    /\ cpc = "start"

\* Lines 38-40.
ChunkSplit ==
    /\ cpc = "start"
    /\ ctWords' = Split(ctText)
    /\ ctI' = 0
    /\ ctChunks' = <<>>
    /\ cpc' = "loop"
    /\ UNCHANGED <<ctText, ctSource, ctSize, ctOverlap, ctIter>>
    /\ UNCHANGED notChunk

\* Lines 41-48: one run of the loop body. A text of n characters has at most
\* n words, so a loop that advances is through after n runs; the model stops
\* following a loop that has run more often than that.
ChunkLoop ==
    /\ cpc = "loop"
    /\ ctI < Len(ctWords)
    /\ ctIter <= MaxTextLen
    /\ LET chunk == Join(" ", Window(ctWords, ctI, ctSize))
       IN  ctChunks' = IF Strip(chunk) # ""
                       THEN Append(ctChunks, [text |-> chunk, source |-> ctSource])
                       ELSE ctChunks
    /\ ctI' = ctI + ChunkStep(ctSize, ctOverlap)
    /\ ctIter' = ctIter + 1
    /\ UNCHANGED <<ctText, ctSource, ctSize, ctOverlap, ctWords, cpc>>
    /\ UNCHANGED notChunk

\* Line 49, reached when the loop condition fails.
ChunkReturn ==
    /\ cpc = "loop"
    /\ ~(ctI < Len(ctWords))
    /\ cpc' = "returned"
    /\ UNCHANGED <<ctText, ctSource, ctSize, ctOverlap, ctWords, ctI, ctIter, ctChunks>>
    /\ UNCHANGED notChunk

\* chunk_text as a function of its arguments, for a window larger than the
\* overlap: the chunks the loop of lines 41-48 collects from position at on.
RECURSIVE ChunksFrom(_, _, _, _, _)
ChunksFrom(words, at, source_name, chunk_size, overlap) ==
    IF ~(at < Len(words)) THEN <<>>
    ELSE LET chunk == Join(" ", Window(words, at, chunk_size))
             rest == ChunksFrom(words, at + ChunkStep(chunk_size, overlap),
                                source_name, chunk_size, overlap)
         IN  IF Strip(chunk) # ""
             THEN <<[text |-> chunk, source |-> source_name]>> \o rest
             ELSE rest

chunk_text(text, source_name, chunk_size, overlap) ==
    ChunksFrom(Split(text), 0, source_name, chunk_size, overlap)

\* ------------------------------------------------------------------------
\* The Build Knowledge Base handler (app.py) with extract_text (parser.py)
\* ------------------------------------------------------------------------
\* Uploaded documents: a name and what reading the file gives, its text or a
\* failure of the reader (a damaged file).
Docs ==
    { [name |-> "policy.pdf", damaged |-> FALSE, text |-> "aes"],
      [name |-> "dr.txt", damaged |-> FALSE, text |-> "backup"],
      [name |-> "scan.pdf", damaged |-> FALSE, text |-> ""],
      [name |-> "broken.docx", damaged |-> TRUE, text |-> ""] }

EndsWith(s, suffix) ==
    Len(s) >= Len(suffix) /\ SubSeq(s, Len(s) - Len(suffix) + 1, Len(s)) = suffix

detect_file_type(filename) ==
    IF EndsWith(filename, ".pdf") THEN "pdf"
    ELSE IF EndsWith(filename, ".txt") THEN "txt"
    ELSE IF EndsWith(filename, ".docx") THEN "docx"
    ELSE "unknown"

\* extract_text(uploaded_file): the text, or the exception of the reader or
\* of the unsupported type.
extract_text(uploaded_file) ==
    IF detect_file_type(uploaded_file.name) = "unknown"
    THEN [raised |-> TRUE, text |-> ""]
    ELSE IF uploaded_file.damaged
    THEN [raised |-> TRUE, text |-> ""]
    ELSE [raised |-> FALSE, text |-> uploaded_file.text]

UploadIdle ==
    /\ upFiles = <<>>
    /\ upI = 0
    /\ upAll = <<>>
    /\ upErrors = <<>>
    /\ upProgress = <<>>
    /\ upResult = NoRet
    /\ upBuilt = FALSE
    /\ upc = "idle"

\* The button is pressed with at least one file selected.
UploadInit ==
    /\ upFiles \in SeqsUpTo(Docs, MaxFiles) \ { <<>> }
    /\ upI = 0
    /\ upAll = <<>>
    /\ upErrors = <<>>
    /\ upProgress = <<>>
    /\ upResult = NoRet
    /\ upBuilt = FALSE
    /\ upc = "loop"

\* Lines 124-133: one file of the loop.
UploadFile ==
    /\ upc = "loop"
    /\ upI < Len(upFiles)
    /\ LET f == upFiles[upI + 1]
           extracted == extract_text(f)
       IN  IF extracted.raised
           THEN /\ upErrors' = Append(upErrors, f.name)
                /\ UNCHANGED upAll
           ELSE /\ upAll' = upAll \o chunk_text(extracted.text, f.name, DefaultChunkSize, DefaultOverlap)
                /\ UNCHANGED upErrors
    /\ upI' = upI + 1
    /\ upProgress' = Append(upProgress, <<upI + 1, Len(upFiles)>>)
    /\ UNCHANGED <<upFiles, upResult, upBuilt, upc>>
    /\ UNCHANGED storeVars
    /\ UNCHANGED notStoreNorUpload

\* Line 136: the call build_index(all_chunks, user_id).
UploadBuild(p) ==
    /\ upc = "loop"
    /\ upI = Len(upFiles)
    /\ p \in procs
    /\ pc[p] = "idle"
    /\ \E u \in users :
        /\ user' = [user EXCEPT ![p] = u]
        /\ Remember(p, u)
    /\ chunksArg' = [chunksArg EXCEPT ![p] = upAll]
    /\ Goto(p, "b_embed")
    /\ ret' = [ret EXCEPT ![p] = NoRet]
    /\ upc' = "building"
    /\ UNCHANGED <<procs, users, indexFile, chunksFile, matrix, deleted>>
    /\ UNCHANGED <<upFiles, upI, upAll, upErrors, upProgress, upResult, upBuilt>>
    /\ UNCHANGED notStoreNorUpload

\* Lines 136-140: build_index returns and the handler goes on, or it raises
\* and the exception leaves the handler.
UploadDone(p) ==
    /\ upc = "building"
    /\ p \in procs
    /\ pc[p] = "idle"
    /\ ret[p].op = "build"
    /\ upResult' = ret[p]
    /\ IF ret[p].ok
       THEN upBuilt' = TRUE /\ upc' = "done"
       ELSE UNCHANGED upBuilt /\ upc' = "failed"
    /\ UNCHANGED <<upFiles, upI, upAll, upErrors, upProgress>>
    /\ UNCHANGED storeVars
    /\ UNCHANGED notStoreNorUpload

\* The next run of the page loads the index (app.py line 183).
UploadLoad(p) ==
    /\ upc \in {"done", "failed"}
    /\ LoadCall(p)

\* ------------------------------------------------------------------------
\* Specifications
\* ------------------------------------------------------------------------
vars == <<storeVars, modelVars, answerVars, chunkVars, retrVars, uploadVars>>

StoreNext ==
    \E p \in AllProcs :
        \/ BuildCall(p) \/ BuildEmbed(p) \/ BuildOpenIndex(p) \/ BuildWriteIndex(p)
        \/ BuildOpenChunks(p) \/ BuildWriteChunks(p) \/ BuildFail(p)
        \/ LoadCall(p) \/ LoadCheckIndex(p) \/ LoadCheckChunks(p)
        \/ LoadReadIndex(p) \/ LoadReadChunks(p)
        \/ ExistsCall(p) \/ ExistsCheckIndex(p) \/ ExistsCheckChunks(p)
        \/ DeleteCall(p) \/ DeleteCheckIndex(p) \/ DeleteRemoveIndex(p)
        \/ DeleteCheckChunks(p) \/ DeleteRemoveChunks(p)

ModelNext ==
    \E t \in AllThreads :
        \/ GetModelTest(t) \/ GetModelConstruct(t) \/ GetModelAssign(t) \/ GetModelReturn(t)

AnswerNext == BatchAnswerOne \/ BatchReturn \/ Summarise

ChunkNext == ChunkSplit \/ ChunkLoop \/ ChunkReturn

RetrieveNext == RetrieveSearch \/ RetrieveFilter

\* The handler, the steps of the build it calls (its embedding and its writes
\* going through), and the load of the next page run.
UploadNext ==
    \/ UploadFile
    \/ \E p \in AllProcs :
        \/ UploadBuild(p)
        \/ BuildEmbed(p) \/ BuildOpenIndex(p) \/ BuildWriteIndex(p)
        \/ BuildOpenChunks(p) \/ BuildWriteChunks(p)
        \/ UploadDone(p)
        \/ UploadLoad(p)
        \/ LoadCheckIndex(p) \/ LoadCheckChunks(p) \/ LoadReadIndex(p) \/ LoadReadChunks(p)

\* One session at a time, one user: any sequence of store operations.
SeqInit == StoreInit({1}, {1}) /\ ModelInit({}) /\ AnswerIdle /\ ChunkIdle /\ RetrieveIdle /\ UploadIdle
SpecSeq == SeqInit /\ [][StoreNext]_vars

\* One session at a time working for one user beside the directory of another.
IsoInit == StoreInitBeside({1}, {1}) /\ ModelInit({}) /\ AnswerIdle /\ ChunkIdle /\ RetrieveIdle /\ UploadIdle
SpecIso == IsoInit /\ [][StoreNext]_vars

\* Two sessions of the same user, interleaved step by step.
ConcInit == StoreInit({1, 2}, {1}) /\ ModelInit({}) /\ AnswerIdle /\ ChunkIdle /\ RetrieveIdle /\ UploadIdle
SpecConc == ConcInit /\ [][StoreNext]_vars

\* Threads of one process calling get_model on first use.
ThreadsInit == StoreInit({}, {}) /\ ModelInit(AllThreads) /\ AnswerIdle /\ ChunkIdle /\ RetrieveIdle /\ UploadIdle
SpecModel == ThreadsInit /\ [][ModelNext]_vars

\* A questionnaire answered in one batch, then summarised.
AnswerInit == StoreInit({}, {}) /\ ModelInit({}) /\ BatchInit /\ ChunkIdle /\ RetrieveIdle /\ UploadIdle
SpecAnswer == AnswerInit /\ [][AnswerNext]_vars

\* get_coverage_summary on any list of answer records.
CoverageInit == StoreInit({}, {}) /\ ModelInit({}) /\ RecordsInit /\ ChunkIdle /\ RetrieveIdle /\ UploadIdle
SpecCoverage == CoverageInit /\ [][Summarise]_vars

\* chunk_text on any text.
ChunkerInit == StoreInit({}, {}) /\ ModelInit({}) /\ AnswerIdle /\ ChunkInit /\ RetrieveIdle /\ UploadIdle
SpecChunk == ChunkerInit /\ [][ChunkNext]_vars

\* retrieve on any index and chunk list.
RetrieverInit == StoreInit({}, {}) /\ ModelInit({}) /\ AnswerIdle /\ ChunkIdle /\ RetrieveInit /\ UploadIdle
SpecRetrieve == RetrieverInit /\ [][RetrieveNext]_vars

\* A press of Build Knowledge Base by a user without a knowledge base.
HandlerInit ==
    /\ StoreInit({1}, {1}) /\ ModelInit({}) /\ AnswerIdle /\ ChunkIdle /\ RetrieveIdle
    /\ UploadInit
SpecUpload == HandlerInit /\ [][UploadNext]_vars

\* ------------------------------------------------------------------------
\* Properties of the vector index store
\* ------------------------------------------------------------------------
\* Row k of the index is the embedding of chunk k, and there are no other rows.
RowsMatchChunks(index, chunks) ==
    /\ Len(index) = Len(chunks)
    /\ \A k \in 1..Len(chunks) : index[k] = get_embedding(chunks[k].text)

\* C1: with a build running beside a reader of the same user, load never
\* returns an index together with a chunk list it was not built from, and
\* index_exists never answers true while the two files on disk are not one
\* complete pair.
C1_PairObservedAtomically ==
    \A p \in AllProcs :
        /\ (ret[p].op = "load" /\ ret[p].ok) =>
               RowsMatchChunks(ret[p].index, ret[p].chunks)
        /\ (ret[p].op = "exists" /\ ret[p].ok /\ ret[p].value) =>
               /\ ret[p].index.complete
               /\ ret[p].chunks.complete
               /\ RowsMatchChunks(ret[p].index.data, ret[p].chunks.data)

\* C2: after any sequence of builds and deletes, one at a time, in which a
\* build may fail at any step, a load that succeeds returns as many rows as
\* chunks, row k being the embedding of chunk k.
C2_LoadedRowsAreTheChunksEmbeddings ==
    (ret[1].op = "load" /\ ret[1].ok) =>
        /\ Len(ret[1].index) = Len(ret[1].chunks)
        /\ \A k \in 1..Len(ret[1].chunks) :
               ret[1].index[k] = get_embedding(ret[1].chunks[k].text)

\* ------------------------------------------------------------------------
\* Properties of the embedding model singleton
\* ------------------------------------------------------------------------
\* C3: however the first calls of get_model interleave, the constructor runs
\* at most once and all callers are handed the same instance.
C3_ModelConstructedOnce ==
    /\ constructed <= 1
    /\ \A t1, t2 \in AllThreads : (got[t1] # 0 /\ got[t2] # 0) => got[t1] = got[t2]

\* ------------------------------------------------------------------------
\* Properties of answering
\* ------------------------------------------------------------------------
CallMade == Len(asked) > 0
LastQuestion == asked[Len(asked)]
LastReturned == bpc # "raised" /\ Len(answers) = Len(asked)
LastRecord == answers[Len(answers)]
Calls(name) == \E k \in 1..Len(lastCall.calls) : lastCall.calls[k] = name

\* What the two probes of the latest call found.
GroqUp == apiKey # ""
OllamaUp == ~lastCall.probe.raised /\ lastCall.probe.status = 200

\* Some chunk of the knowledge base scores at least the threshold against q.
HasRelevantChunk(q) ==
    \E k \in 1..Len(kbChunks) :
        Dot(get_embedding(kbChunks[k].text), get_embedding(q)) >= DefaultThreshold

IsSentinel(record, text) ==
    record.answer = text /\ record.citation = "N/A" /\ record.confidence = 0

\* C4: in every call the backend is chosen from that call's probes: the cloud
\* backend is the one called whenever its probe succeeded and a generation is
\* made, the local one is called only if the cloud probe failed and its own
\* succeeded, and with both probes failed no generation is requested.
C4_ProviderChosenFromProbes ==
    CallMade =>
        /\ Calls("generate_with_groq") => GroqUp
        /\ Calls("generate_with_ollama") => (~GroqUp /\ OllamaUp)
        /\ (GroqUp /\ Calls("index.search") /\ HasRelevantChunk(LastQuestion))
               => Calls("generate_with_groq")
        /\ (~GroqUp /\ OllamaUp /\ Calls("index.search") /\ HasRelevantChunk(LastQuestion))
               => Calls("generate_with_ollama")
        /\ (~GroqUp /\ ~OllamaUp) => ~Generated(lastCall.calls)

C4_Witness ==
    CallMade /\ GroqUp /\ OllamaUp /\ Calls("generate_with_groq")

\* C5: with neither backend available the call returns the Unavailable
\* sentinel (fixed text, citation "N/A", confidence 0.0) and has neither
\* embedded the question nor searched the index.
C5_UnavailableWithoutRetrieval ==
    (CallMade /\ ~GroqUp /\ ~OllamaUp) =>
        /\ LastReturned
        /\ IsSentinel(LastRecord, "No LLM available. Please configure GROQ_API_KEY or start Ollama.")
        /\ ~Calls("get_embedding")
        /\ ~Calls("index.search")

C5_Witness ==
    CallMade /\ ~GroqUp /\ ~OllamaUp /\ HasRelevantChunk(LastQuestion) /\ LastReturned

\* C6, as claimed: a question no chunk is relevant to gets the "Not found in
\* references." sentinel whatever the availability of the backends, also
\* with neither available.
C6_NotFoundWhateverTheProviders ==
    (CallMade /\ LastReturned /\ ~HasRelevantChunk(LastQuestion)) =>
        IsSentinel(LastRecord, "Not found in references.")

\* C6, amended: a question no chunk is relevant to gets the "Not found in
\* references." sentinel whenever at least one backend is available (cloud
\* only, local only, or both).
C6_NotFoundWhenAProviderIsUp ==
    (CallMade /\ LastReturned /\ ~HasRelevantChunk(LastQuestion) /\ (GroqUp \/ OllamaUp)) =>
        IsSentinel(LastRecord, "Not found in references.")

C6_Witness ==
    /\ CallMade /\ LastReturned /\ ~HasRelevantChunk(LastQuestion)
    /\ ~GroqUp /\ OllamaUp
    /\ LastRecord.answer = "Not found in references."

\* The latest call asked a backend to generate and the request failed.
LastGenerationFailed ==
    /\ CallMade
    /\ Generated(lastCall.calls)
    /\ (lastCall.response.raised \/ lastCall.response.status # 200)

Diagnostic ==
    IF lastCall.response.raised THEN lastCall.response.text
    ELSE (IF Calls("generate_with_groq") THEN "Groq error: " ELSE "Ollama error: ")
             \o lastCall.response.text

\* C7: a failed or timed-out generation call gives that question an error
\* record (the diagnostic in the answer, citation "N/A", confidence 0.0) and
\* does not leave the loop: the next question can still be processed, and a
\* batch that returns has a record for every question.
C7_GenerationFailureIsLocal ==
    /\ LastGenerationFailed =>
           /\ LastReturned
           /\ IsSentinel(LastRecord, "Error generating answer: " \o Diagnostic)
           /\ Len(asked) < Len(questions) => ENABLED BatchAnswerOne
    /\ bpc = "returned" => Len(answers) = Len(questions)

C7_Witness ==
    /\ bpc = "returned"
    /\ Len(answers) = 2
    /\ answers[1].answer = "Error generating answer: Read timed out."
    /\ paths[2] = "generated"

\* C8: generate_answer is invoked once per question, in input order; the
\* batch returns one record per question, record k carrying the number and
\* text of question k; a progress callback is called once after each question
\* with (k)/total for the k-th, so the values strictly increase and end at 1.
C8_BatchSequentialOnePerQuestion ==
    /\ Len(asked) <= Len(questions)
    /\ \A k \in 1..Len(asked) : asked[k] = questions[k].question
    /\ \A k \in 1..Len(answers) :
           /\ answers[k].number = questions[k].number
           /\ answers[k].question = questions[k].question
    /\ IF hasCallback
       THEN /\ Len(progress) = Len(answers)
            /\ \A k \in 1..Len(progress) :
                   progress[k][1] * Len(questions) = k * progress[k][2]
            /\ \A k \in 1..(Len(progress) - 1) :
                   progress[k][1] * progress[k + 1][2] < progress[k + 1][1] * progress[k][2]
       ELSE progress = <<>>
    /\ bpc = "returned" =>
           /\ Len(asked) = Len(questions)
           /\ Len(answers) = Len(questions)
           /\ (hasCallback /\ questions # <<>>) =>
                  progress[Len(progress)][1] = progress[Len(progress)][2]

C8_Witness ==
    /\ bpc = "returned"
    /\ hasCallback
    /\ Len(questions) >= 2
    /\ questions[1].question # questions[2].question
    /\ Len(progress) = Len(questions)

\* ------------------------------------------------------------------------
\* Properties of the coverage summary
\* ------------------------------------------------------------------------
NotFoundAt == { k \in 1..Len(answers) : answers[k].answer = "Not found in references." }
AnsweredAt == (1..Len(answers)) \ NotFoundAt

RECURSIVE SumConfidenceAt(_)
SumConfidenceAt(S) ==
    IF S = {} THEN 0
    ELSE LET k == CHOOSE x \in S : TRUE
         IN  answers[k].confidence + SumConfidenceAt(S \ {k})

CoverageCounts ==
    /\ summary.total_questions = Len(answers)
    /\ summary.not_found = Cardinality(NotFoundAt)
    /\ summary.answered = Cardinality(AnsweredAt)
    /\ summary.answered + summary.not_found = summary.total_questions

\* C9, as claimed: the counts are by exact comparison with the sentinel text,
\* and avg_confidence is the mean confidence of the answered records (zero
\* when there are none).
C9_CoverageExactMean ==
    bpc = "summarised" =>
        /\ CoverageCounts
        /\ summary.avg_confidence * Cardinality(AnsweredAt) = SumConfidenceAt(AnsweredAt)
        /\ AnsweredAt = {} => summary.avg_confidence = 0

\* C9, amended: the same counts, and avg_confidence is the mean confidence of
\* the answered records rounded to two decimal places (zero when there are
\* none): it is a whole number of hundredths at most half a hundredth away
\* from the mean.
C9_CoverageRoundedMean ==
    bpc = "summarised" =>
        /\ CoverageCounts
        /\ LET n == Cardinality(AnsweredAt)
               d == summary.avg_confidence * n - SumConfidenceAt(AnsweredAt)
           IN  2 * d <= n /\ 2 * (0 - d) <= n
        /\ AnsweredAt = {} => summary.avg_confidence = 0

\* A summary over records where confidence and classification disagree: a
\* sentinel text with a positive confidence, another text with confidence 0.
C9_Witness ==
    /\ bpc = "summarised"
    /\ \E k \in NotFoundAt : answers[k].confidence > 0
    /\ \E k \in AnsweredAt : answers[k].confidence = 0
    /\ Cardinality(AnsweredAt) >= 2

\* C10: after a batch, the records counted as not_found are exactly those
\* returned on the empty-retrieval path, never one whose text a generation
\* backend returned; each of them has citation "N/A" and confidence 0.0.
C10_GeneratedNeverCountedNotFound ==
    bpc = "summarised" =>
        /\ summary.not_found = Cardinality({ k \in 1..Len(paths) : paths[k] = "not_found" })
        /\ \A k \in NotFoundAt :
               /\ paths[k] # "generated"
               /\ answers[k].citation = "N/A"
               /\ answers[k].confidence = 0


\* ------------------------------------------------------------------------
\* Properties of chunk_text
\* ------------------------------------------------------------------------
CeilDiv(a, b) == (a + b - 1) \div b

Max2(a, b) == IF a > b THEN a ELSE b

Min2(a, b) == IF a < b THEN a ELSE b

\* The number of words of a text, counted on the text itself: the positions
\* where a non-whitespace character starts a run.
WordCount(text) ==
    Cardinality({ k \in 1..Len(text) :
        /\ SubSeq(text, k, k) \notin Whitespace
        /\ (k = 1 \/ SubSeq(text, k - 1, k - 1) \in Whitespace) })

\* chunk_text has returned from a call whose overlap is smaller than its window.
ChunkedWithValidOverlap == cpc = "returned" /\ 0 <= ctOverlap /\ ctOverlap < ctSize

\* The 0-based word positions [from, to) of chunk k (k counted from 0) as the
\* windows of the specification lay them out.
WindowFrom(k) == k * (ctSize - ctOverlap)

WindowTo(k) == Min2(WindowFrom(k) + ctSize, Len(ctWords))

\* The words two consecutive chunks k, k+1 have in common.
SharedWords(k) == Max2(0, Min2(WindowTo(k), WindowTo(k + 1)) - WindowFrom(k + 1))

\* C11 as the specification states it: a text of W words yields exactly
\* ceil(max(W - overlap, 0) / (chunk_size - overlap)) chunks.
C11_ChunkCountWithoutOverlapTail ==
    ChunkedWithValidOverlap =>
        Len(ctChunks) = CeilDiv(Max2(WordCount(ctText) - ctOverlap, 0), ctSize - ctOverlap)

\* C11 amended: a text of W words yields exactly ceil(W / (chunk_size - overlap))
\* chunks, one for every window start below W.
C11_ChunkCountPerWindowStart ==
    ChunkedWithValidOverlap =>
        Len(ctChunks) = CeilDiv(WordCount(ctText), ctSize - ctOverlap)

\* A text shorter than the overlap still yields a chunk, and a text that fills
\* more than one window yields a trailing chunk inside the overlap.
C11_Witness ==
    /\ ChunkedWithValidOverlap
    /\ ctOverlap > 0
    /\ WordCount(ctText) > ctSize
    /\ Len(ctChunks) > CeilDiv(Max2(WordCount(ctText) - ctOverlap, 0), ctSize - ctOverlap)

\* The parts of C12 that do not speak of the overlap: chunk k is the words
\* [k*step, k*step + chunk_size) joined by single spaces, has between one and
\* chunk_size words, carries the source name, and the chunks cover every word
\* in order.
ChunksAreTheWindows ==
    /\ \A k \in 0..(Len(ctChunks) - 1) :
        /\ WindowFrom(k) < WindowTo(k)
        /\ WindowTo(k) - WindowFrom(k) <= ctSize
        /\ ctChunks[k + 1].text = Join(" ", SubSeq(ctWords, WindowFrom(k) + 1, WindowTo(k)))
        /\ WordCount(ctChunks[k + 1].text) = WindowTo(k) - WindowFrom(k)
        /\ ctChunks[k + 1].source = ctSource
    /\ ctWords = Split(ctText)
    /\ \A j \in 0..(Len(ctWords) - 1) :
        \E k \in 0..(Len(ctChunks) - 1) : WindowFrom(k) <= j /\ j < WindowTo(k)

\* C12 as the specification states it: the chunks are the windows, and any two
\* consecutive chunks share exactly overlap words except possibly the last pair.
C12_AllButLastPairShareOverlap ==
    ChunkedWithValidOverlap =>
        /\ ChunksAreTheWindows
        /\ \A k \in 0..(Len(ctChunks) - 3) : SharedWords(k) = ctOverlap

\* C12 amended: the chunks are the windows, and a chunk that is a full window
\* of chunk_size words shares exactly overlap words with the chunk after it.
C12_FullWindowsShareOverlap ==
    ChunkedWithValidOverlap =>
        /\ ChunksAreTheWindows
        /\ \A k \in 0..(Len(ctChunks) - 2) :
            WindowTo(k) - WindowFrom(k) = ctSize => SharedWords(k) = ctOverlap

\* Three chunks, the first a full window followed by a chunk it overlaps.
C12_Witness ==
    /\ ChunkedWithValidOverlap
    /\ ctOverlap > 0
    /\ Len(ctChunks) >= 3
    /\ WindowTo(0) - WindowFrom(0) = ctSize
    /\ SharedWords(0) = ctOverlap

\* C13 as the specification states it: every run of the loop body moves the
\* window position strictly forward, whatever the overlap, so the loop ends.
C13_WindowStrictlyAdvances ==
    [][(cpc = "loop" /\ ctIter' = ctIter + 1) => ctI' > ctI]_vars


\* ------------------------------------------------------------------------
\* Properties of retrieve
\* ------------------------------------------------------------------------
RetrieveReturned == rpc = "done" /\ ~rtResults.raised

\* A hit of the search clears the threshold.
SomeHitClears == \E n \in 1..Len(rtHits) : rtHits[n].score >= rtArgs.threshold

\* C14: retrieve returns at most top_k results, each with a score of at least
\* the threshold, in non-increasing order of score; when no hit clears the
\* threshold it returns the empty list and raises nothing.
C14_AtMostTopKAboveThresholdDescending ==
    /\ RetrieveReturned =>
        /\ Len(rtResults.value) <= rtArgs.top_k
        /\ \A n \in 1..Len(rtResults.value) : rtResults.value[n].score >= rtArgs.threshold
        /\ \A n \in 1..(Len(rtResults.value) - 1) :
               rtResults.value[n].score >= rtResults.value[n + 1].score
    /\ (rpc = "done" /\ ~SomeHitClears) => (~rtResults.raised /\ rtResults.value = <<>>)

\* Two hits clear the default threshold with different scores and a third
\* hit does not.
C14_Witness ==
    /\ RetrieveReturned
    /\ rtArgs.threshold = DefaultThreshold
    /\ Len(rtResults.value) = 2
    /\ rtResults.value[1].score > rtResults.value[2].score
    /\ Len(rtHits) > 2

\* The results retrieve owes for its hits: one per hit that clears the
\* threshold at a position i with 0 <= i < len(chunks), taken from chunk i.
RECURSIVE InRangeResults(_, _, _)
InRangeResults(hits, chunks, threshold) ==
    IF hits = <<>> THEN <<>>
    ELSE LET h == Head(hits)
             rest == InRangeResults(Tail(hits), chunks, threshold)
         IN  IF h.score >= threshold /\ 0 <= h.idx /\ h.idx < Len(chunks)
             THEN <<[text |-> chunks[h.idx + 1].text,
                     source |-> chunks[h.idx + 1].source,
                     score |-> h.score]>> \o rest
             ELSE rest

\* C19 as the specification states it: for every threshold, retrieve discards
\* every hit whose position is out of range, at or beyond len(chunks) or
\* negative, and each result carries the text and source of the chunk at its
\* own hit's position.
C19_OutOfRangeHitsDiscarded ==
    rpc = "done" =>
        /\ ~rtResults.raised
        /\ rtResults.value = InRangeResults(rtHits, rtArgs.chunks, rtArgs.threshold)


\* ------------------------------------------------------------------------
\* Properties of load, exists, build and delete, one operation at a time
\* ------------------------------------------------------------------------
\* Session p's call of op has ended and p has not called again.
Ended(p, op) == pc[p] = "idle" /\ ret[p].op = op

\* Both artifacts of user u are on disk.
BothPresent(u) == indexFile[UserDir(u)].exists /\ chunksFile[UserDir(u)].exists

IndexNotFound(r) == ~r.ok /\ r.err = "FileNotFoundError"

\* Session p's call began right after its call of op ended.
Previous(p, op) == hist[p].prev.op = op /\ hist[p].prev.user = ret[p].user

\* C15 as the specification states it: load succeeds exactly when both
\* artifacts are present and exists is true exactly then, so in every state
\* build and delete can reach exists is false exactly when load fails with
\* the index-not-found error.
C15_LoadSucceedsIffBothPresent ==
    \A p \in procs :
        /\ Ended(p, "load") =>
            /\ ret[p].ok <=> BothPresent(ret[p].user)
            /\ IndexNotFound(ret[p]) <=> ~BothPresent(ret[p].user)
        /\ Ended(p, "exists") => (ret[p].value <=> BothPresent(ret[p].user))

\* C16: after a build that returned, the next load returns the chunk list the
\* build was given and the index built from exactly those chunks, whatever
\* the store held before the build.
C16_LoadAfterBuildReturnsItsInput ==
    \A p \in procs :
        (Ended(p, "load") /\ Previous(p, "build") /\ hist[p].prev.ok) =>
            /\ ret[p].ok
            /\ ret[p].chunks = hist[p].prev.chunks
            /\ ret[p].index = BuildMatrix(hist[p].prev.chunks)
            /\ RowsMatchChunks(ret[p].index, ret[p].chunks)

\* A load after a successful rebuild over an older, different knowledge base.
C16_Witness ==
    \E p \in procs :
        /\ Ended(p, "load") /\ Previous(p, "build") /\ hist[p].prev.ok
        /\ hist[p].hadIndex /\ hist[p].hadChunks
        /\ Len(ret[p].chunks) = MaxChunks
        /\ ret[p].chunks[1] # ret[p].chunks[2]

\* C17: delete removes both artifacts and returns true exactly when at least
\* one of them was there before; the exists, load or delete that follows it
\* reports false, fails with index-not-found, and returns false.
C17_DeleteRemovesBothAndReports ==
    \A p \in procs :
        /\ Ended(p, "delete") =>
            /\ ret[p].ok
            /\ ~indexFile[UserDir(ret[p].user)].exists
            /\ ~chunksFile[UserDir(ret[p].user)].exists
            /\ ret[p].value <=> (hist[p].hadIndex \/ hist[p].hadChunks)
        /\ (Ended(p, "exists") /\ Previous(p, "delete")) => (ret[p].ok /\ ~ret[p].value)
        /\ (Ended(p, "load") /\ Previous(p, "delete")) => IndexNotFound(ret[p])
        /\ (Ended(p, "delete") /\ Previous(p, "delete")) => ~ret[p].value

\* A second delete right after one that removed something.
C17_Witness ==
    \E p \in procs :
        /\ Ended(p, "delete") /\ Previous(p, "delete")
        /\ hist[p].prev.value
        /\ ~ret[p].value


\* ------------------------------------------------------------------------
\* Properties of the Build Knowledge Base handler
\* ------------------------------------------------------------------------
\* The chunks of the files whose text could be extracted, in upload order.
RECURSIVE RemainingChunks(_)
RemainingChunks(files) ==
    IF files = <<>> THEN <<>>
    ELSE LET f == Head(files)
         IN  (IF f.damaged \/ detect_file_type(f.name) = "unknown"
              THEN <<>>
              ELSE chunk_text(f.text, f.name, DefaultChunkSize, DefaultOverlap))
             \o RemainingChunks(Tail(files))

\* C18 as the specification states it: whichever uploaded documents fail
\* extraction or yield no words, all of them included, the handler still
\* calls build with the chunks that remain, build returns without raising,
\* and the load that follows succeeds with those chunks.
C18_ExtractionFailuresNeverAbortBuild ==
    /\ upc \in {"building", "done", "failed"} =>
        /\ upI = Len(upFiles)
        /\ upAll = RemainingChunks(upFiles)
    /\ upc \in {"done", "failed"} =>
        /\ upResult.op = "build"
        /\ upResult.ok
        /\ upResult.chunks = RemainingChunks(upFiles)
        /\ upBuilt
        /\ \A p \in procs : Ended(p, "load") =>
               (ret[p].ok /\ ret[p].chunks = RemainingChunks(upFiles))


\* ------------------------------------------------------------------------
\* One generation attempt per answer
\* ------------------------------------------------------------------------
GenerateCallCount ==
    Cardinality({ k \in 1..Len(lastCall.calls) :
        lastCall.calls[k] \in {"generate_with_groq", "generate_with_ollama"} })

\* C20: one call of generate_answer makes at most one generate call, so to
\* one backend only; when the cloud backend was chosen and its call failed,
\* the local backend is not called even though its probe succeeded, and the
\* call returns the error record.
C20_OneGenerateCallNoFallback ==
    CallMade =>
        /\ GenerateCallCount <= 1
        /\ (Calls("generate_with_groq") /\ LastGenerationFailed /\ OllamaUp) =>
               /\ ~Calls("generate_with_ollama")
               /\ LastReturned
               /\ IsSentinel(LastRecord, "Error generating answer: " \o Diagnostic)

\* The cloud call failed while the local backend was reachable.
C20_Witness ==
    /\ CallMade
    /\ GroqUp /\ OllamaUp
    /\ Calls("generate_with_groq")
    /\ LastGenerationFailed
    /\ LastReturned
    /\ GenerateCallCount = 1


\* ------------------------------------------------------------------------
\* Isolation of users
\* ------------------------------------------------------------------------
\* C21: whatever build, load, exists and delete calls are made for a user,
\* no step of them creates, replaces or removes the stored index or the
\* stored chunk list of a user no session is working for, so exists and load
\* of that user give what they gave before.
C21_OtherUsersStoreUntouched ==
    [][\A b \in AllUsers :
          (\A p \in procs : user'[p] # b) =>
              /\ indexFile'[UserDir(b)] = indexFile[UserDir(b)]
              /\ chunksFile'[UserDir(b)] = chunksFile[UserDir(b)]]_vars

\* A user built a knowledge base and deleted it again beside the different
\* knowledge base of another user, which is still there.
C21_Witness ==
    \E p \in procs, b \in AllUsers :
        /\ Ended(p, "delete") /\ ret[p].value
        /\ Previous(p, "build") /\ hist[p].prev.ok
        /\ b # ret[p].user
        /\ BothPresent(b)
        /\ chunksFile[UserDir(b)].complete
        /\ chunksFile[UserDir(b)].data # hist[p].prev.chunks

====
